---- MODULE Spec2Model ----
(***************************************************************************)
(* A model of the flexiconfig configuration store (src/flexiconfig.go):    *)
(* the root tree held by Settings, the recursive merge of loaded trees,    *)
(* colon-path resolution for RawGet / RawSet and the typed accessors.      *)
(*                                                                         *)
(* A Go map[string]interface{} is a function from strings to tagged        *)
(* values; a path is a sequence of one-character strings, so that          *)
(* strings.Split is modelled by what it does.  Values handed to the store  *)
(* by a caller are fresh values: no two calls share a Go map object.       *)
(***************************************************************************)
EXTENDS Integers, Sequences, FiniteSets, TLC

VARIABLES settings, op, args, result, before

vars == <<settings, op, args, result, before>>

(***************************************************************************)
(* Bounds of the model.                                                    *)
(***************************************************************************)
\* Entries (keys at any depth) the store may hold; a call that would exceed
\* it is not made.
MaxNodes == 2
\* Characters of a path; ":" alone already has two (empty) segments.
MaxPathLen == 2
\* Entries of a tree passed to MergeSettings.
MaxInNodes == 2
\* Entries of the object a JSON text or a Lua chunk yields.
MaxDocNodes == 1
\* Entries of the three trees of SpecMerge taken together.
MaxMergeNodes == 4

(***************************************************************************)
(* The data model: the dynamic types a map[string]interface{} built by     *)
(* encoding/json or by a caller of RawSet can hold.                        *)
(***************************************************************************)
Null == [t |-> "null"]
BoolV(b) == [t |-> "bool", b |-> b]
StringV(s) == [t |-> "string", s |-> s]
NumberV(n) == [t |-> "number", n |-> n]
SequenceV(q) == [t |-> "sequence", q |-> q]
MapV(m) == [t |-> "map", m |-> m]

EmptyMap == [k \in {} |-> Null]

IsMap(v) == v.t = "map"

Put(node, key, value) ==
    [k \in DOMAIN node \cup {key} |-> IF k = key THEN value ELSE node[k]]

RECURSIVE Size(_)
Size(node) ==
    LET RECURSIVE Sum(_)
        Sum(ks) == IF ks = {} THEN 0
                   ELSE LET k == CHOOSE x \in ks : TRUE
                        IN 1 + (IF IsMap(node[k]) THEN Size(node[k].m) ELSE 0)
                             + Sum(ks \ {k})
    IN Sum(DOMAIN node)

(***************************************************************************)
(* Inputs.                                                                 *)
(***************************************************************************)
Letters == {"a"}
Chars == Letters \cup {":"}
Paths == UNION {[1..n -> Chars] : n \in 0..MaxPathLen}

InKeys == {""} \cup Letters
Leaves == {Null, BoolV(TRUE), StringV("s"), NumberV(1), SequenceV(<<>>)}

RECURSIVE Extensions(_)
Extensions(t) ==
    {Put(t, k, v) : k \in InKeys \ DOMAIN t, v \in Leaves \cup {MapV(EmptyMap)}}
    \cup UNION {{[t EXCEPT ![k] = MapV(s)] : s \in Extensions(t[k].m)} :
                    k \in {x \in DOMAIN t : IsMap(t[x])}}

RECURSIVE TreesUpTo(_)
TreesUpTo(n) ==
    IF n = 0 THEN {EmptyMap}
    ELSE LET P == TreesUpTo(n - 1) IN P \cup UNION {Extensions(t) : t \in P}

InTrees == TreesUpTo(MaxInNodes)
DocTrees == TreesUpTo(MaxDocNodes)
SetValues == {Null, BoolV(TRUE), MapV(EmptyMap)}

(***************************************************************************)
(* strings.Split(path, ":").                                               *)
(***************************************************************************)
RECURSIVE SplitFrom(_, _, _)
SplitFrom(path, i, cur) ==
    IF i > Len(path) THEN <<cur>>
    ELSE IF path[i] = ":" THEN <<cur>> \o SplitFrom(path, i + 1, "")
    ELSE SplitFrom(path, i + 1, cur \o path[i])

Split(path) == SplitFrom(path, 1, "")

(***************************************************************************)
(* mergeMaps: the keys of new are visited in any order; they are distinct, *)
(* so the result does not depend on the order.                             *)
(***************************************************************************)
\* Variants of mergeMaps with a fault seeded: an incoming Tree replaces the
\* existing Tree wholesale; an existing value is kept against an incoming
\* scalar.
RECURSIVE mergeMapsReplacing(_, _)
mergeMapsReplacing(existing, new) ==
    [key \in DOMAIN existing \cup DOMAIN new |->
        IF key \notin DOMAIN new THEN existing[key]
        ELSE IF IsMap(new[key])
             THEN MapV(mergeMapsReplacing(EmptyMap, new[key].m))
             ELSE new[key]]

RECURSIVE mergeMapsKeeping(_, _)
mergeMapsKeeping(existing, new) ==
    [key \in DOMAIN existing \cup DOMAIN new |->
        IF key \notin DOMAIN new THEN existing[key]
        ELSE IF IsMap(new[key])
             THEN IF key \in DOMAIN existing /\ IsMap(existing[key])
                  THEN MapV(mergeMapsKeeping(existing[key].m, new[key].m))
                  ELSE MapV(mergeMapsKeeping(EmptyMap, new[key].m))
             ELSE IF key \in DOMAIN existing THEN existing[key]
                  ELSE new[key]]

RECURSIVE mergeMaps(_, _)
mergeMaps(existing, new) ==
    [key \in DOMAIN existing \cup DOMAIN new |->
        IF key \notin DOMAIN new THEN existing[key]
        ELSE IF IsMap(new[key])
             THEN IF key \in DOMAIN existing /\ IsMap(existing[key])
                  THEN MapV(mergeMaps(existing[key].m, new[key].m))
                  ELSE MapV(mergeMaps(EmptyMap, new[key].m))
             ELSE new[key]]

\* A variant of MergeSettings with a fault seeded: the two maps are passed to
\* mergeMaps the other way round, so the existing settings win.
MergeSettingsSwapped(root, newSettings) ==
    [err |-> "nil", settings |-> mergeMaps(newSettings, root)]

MergeSettings(root, newSettings) ==
    [err |-> "nil", settings |-> mergeMaps(root, newSettings)]

(***************************************************************************)
(* RawGet: walks the navigation parts, then reads the final part.  The     *)
(* record returned carries the node as the call leaves it.                 *)
(* The final read asserts the stored value to interface{}; the assertion   *)
(* fails on a nil interface, so a key holding null is reported like an     *)
(* absent key, and the message is formatted from the asserted (nil) value. *)
(***************************************************************************)
\* A variant of RawGetFrom with a fault seeded: a missing navigation part is
\* created as an empty map, as RawSet does.
RECURSIVE RawGetFromCreating(_, _, _)
RawGetFromCreating(node, parts, i) ==
    LET part == parts[i] IN
    IF i = Len(parts)
    THEN IF part \in DOMAIN node /\ node[part].t # "null"
         THEN [err |-> "nil", missing |-> "", value |-> node[part],
               node |-> node]
         ELSE [err |-> "Could not find", missing |-> "%!s(<nil>)",
               value |-> Null, node |-> node]
    ELSE IF part \in DOMAIN node /\ IsMap(node[part])
         THEN LET r == RawGetFromCreating(node[part].m, parts, i + 1)
              IN [r EXCEPT !.node = [node EXCEPT ![part] = MapV(r.node)]]
         ELSE IF part \in DOMAIN node
              THEN [err |-> "Could not find", missing |-> part,
                    value |-> Null, node |-> node]
              ELSE LET r == RawGetFromCreating(EmptyMap, parts, i + 1)
                   IN [r EXCEPT !.node = Put(node, part, MapV(r.node))]

RECURSIVE RawGetFrom(_, _, _)
RawGetFrom(node, parts, i) ==
    LET part == parts[i] IN
    IF i = Len(parts)
    THEN IF part \in DOMAIN node /\ node[part].t # "null"
         THEN [err |-> "nil", missing |-> "", value |-> node[part],
               node |-> node]
         ELSE [err |-> "Could not find", missing |-> "%!s(<nil>)",
               value |-> Null, node |-> node]
    ELSE IF part \in DOMAIN node /\ IsMap(node[part])
         THEN LET r == RawGetFrom(node[part].m, parts, i + 1)
              IN [r EXCEPT !.node = [node EXCEPT ![part] = MapV(r.node)]]
         ELSE [err |-> "Could not find", missing |-> part, value |-> Null,
               node |-> node]

RawGet(root, path) ==
    LET r == RawGetFrom(root, Split(path), 1)
    IN [err |-> r.err, missing |-> r.missing, value |-> r.value,
        settings |-> r.node]

(***************************************************************************)
(* RawSet.  When a navigation part is present but is not a map, the failed *)
(* assertion `node, ok = nodePart.(map[string]interface{})` has already    *)
(* set node to the nil map; with timid the call returns the error, without *)
(* timid the write `node[part] = newMap` goes to the nil map and panics.   *)
(***************************************************************************)
\* A variant of RawSetFrom with a fault seeded: the timid check comes after
\* the non-Tree part has been replaced by an empty map.
RECURSIVE RawSetFromOverwriting(_, _, _, _, _)
RawSetFromOverwriting(node, parts, i, timid, value) ==
    LET part == parts[i] IN
    IF i = Len(parts)
    THEN [err |-> "nil", panic |-> FALSE, node |-> Put(node, part, value)]
    ELSE IF part \in DOMAIN node
         THEN IF IsMap(node[part])
              THEN LET r == RawSetFromOverwriting(node[part].m, parts, i + 1,
                                                  timid, value)
                   IN [r EXCEPT !.node = [node EXCEPT ![part] = MapV(r.node)]]
              ELSE IF timid
                   THEN [err |-> "Could not find", panic |-> FALSE,
                         node |-> Put(node, part, MapV(EmptyMap))]
                   ELSE [err |-> "nil", panic |-> TRUE, node |-> node]
         ELSE LET r == RawSetFromOverwriting(EmptyMap, parts, i + 1, timid,
                                             value)
              IN [r EXCEPT !.node = Put(node, part, MapV(r.node))]

RECURSIVE RawSetFrom(_, _, _, _, _)
RawSetFrom(node, parts, i, timid, value) ==
    LET part == parts[i] IN
    IF i = Len(parts)
    THEN [err |-> "nil", panic |-> FALSE, node |-> Put(node, part, value)]
    ELSE IF part \in DOMAIN node
         THEN IF IsMap(node[part])
              THEN LET r == RawSetFrom(node[part].m, parts, i + 1, timid, value)
                   IN [r EXCEPT !.node = [node EXCEPT ![part] = MapV(r.node)]]
              ELSE IF timid
                   THEN [err |-> "Could not find", panic |-> FALSE,
                         node |-> node]
                   ELSE [err |-> "nil", panic |-> TRUE, node |-> node]
         ELSE LET r == RawSetFrom(EmptyMap, parts, i + 1, timid, value)
              IN [r EXCEPT !.node = Put(node, part, MapV(r.node))]

RawSet(root, timid, path, value) ==
    LET r == RawSetFrom(root, Split(path), 1, timid, value)
    IN [err |-> r.err, panic |-> r.panic, settings |-> r.node]

(***************************************************************************)
(* mapstructure.Decode of a raw value into a target of the given kind:     *)
(* without weak typing a numeric target accepts only numbers; an           *)
(* interface{} target accepts anything.                                    *)
(***************************************************************************)
Decode(rawvalue, kind) ==
    IF kind = "interface" \/ rawvalue.t = "number"
    THEN [err |-> "nil", value |-> rawvalue]
    ELSE [err |-> "decode", value |-> Null]

Get(root, path, kind) ==
    LET raw == RawGet(root, path) IN
    IF raw.err # "nil"
    THEN [err |-> raw.err, value |-> Null, settings |-> raw.settings]
    ELSE LET d == Decode(raw.value, kind)
         IN [err |-> d.err, value |-> d.value, settings |-> raw.settings]

GetBool(root, path, defaultValue) ==
    LET raw == RawGet(root, path) IN
    IF raw.err # "nil"
    THEN [err |-> raw.err, value |-> defaultValue, settings |-> raw.settings]
    ELSE IF raw.value.t # "bool"
         THEN [err |-> "is not a bool", value |-> defaultValue,
               settings |-> raw.settings]
         ELSE [err |-> "nil", value |-> raw.value, settings |-> raw.settings]

\* A variant of GetString with a fault seeded: the type check is dropped.
GetStringCoercing(root, path, defaultValue) ==
    LET raw == RawGet(root, path) IN
    IF raw.err # "nil"
    THEN [err |-> raw.err, value |-> defaultValue, settings |-> raw.settings]
    ELSE [err |-> "nil", value |-> raw.value, settings |-> raw.settings]

GetString(root, path, defaultValue) ==
    LET raw == RawGet(root, path) IN
    IF raw.err # "nil"
    THEN [err |-> raw.err, value |-> defaultValue, settings |-> raw.settings]
    ELSE IF raw.value.t # "string"
         THEN [err |-> "is not a string", value |-> defaultValue,
               settings |-> raw.settings]
         ELSE [err |-> "nil", value |-> raw.value, settings |-> raw.settings]

GetInt(root, path, defaultValue) ==
    LET g == Get(root, path, "int64") IN
    IF g.err # "nil"
    THEN [err |-> g.err, value |-> defaultValue, settings |-> g.settings]
    ELSE [err |-> "nil", value |-> g.value, settings |-> g.settings]

GetFloat(root, path, defaultValue) ==
    LET g == Get(root, path, "float64") IN
    IF g.err # "nil"
    THEN [err |-> g.err, value |-> defaultValue, settings |-> g.settings]
    ELSE [err |-> "nil", value |-> g.value, settings |-> g.settings]

(***************************************************************************)
(* Loaders.  A JSON text is malformed, a value that is not an object, the  *)
(* literal null, or an object; json.Unmarshal into a map variable rejects  *)
(* the first two and leaves the map nil for null.                          *)
(***************************************************************************)
JSONTexts ==
    {[kind |-> "malformed"], [kind |-> "scalar"], [kind |-> "null"]}
    \cup {[kind |-> "object", tree |-> t] : t \in DocTrees}

Unmarshal(b) ==
    IF b.kind \in {"malformed", "scalar"}
    THEN [err |-> "json", newSettings |-> EmptyMap]
    ELSE IF b.kind = "null" THEN [err |-> "nil", newSettings |-> EmptyMap]
    ELSE [err |-> "nil", newSettings |-> b.tree]

\* A variant of LoadJSON with a fault seeded: the text is unmarshalled into
\* the store's own map, so a failed parse leaves the store holding the nil map.
LoadJSONAssigning(root, b) ==
    LET u == Unmarshal(b) IN
    IF u.err # "nil" THEN [err |-> u.err, settings |-> u.newSettings]
    ELSE MergeSettings(root, u.newSettings)

LoadJSON(root, b) ==
    LET u == Unmarshal(b) IN
    IF u.err # "nil" THEN [err |-> u.err, settings |-> root]
    ELSE MergeSettings(root, u.newSettings)

JSONFiles ==
    {[exists |-> FALSE]} \cup {[exists |-> TRUE, bytes |-> b] : b \in JSONTexts}

LoadJSONFile(root, file) ==
    IF ~file.exists THEN [err |-> "read", settings |-> root]
    ELSE LoadJSON(root, file.bytes)

(***************************************************************************)
(* A Lua chunk either fails to run, or leaves a value that luajson.Encode  *)
(* rejects, or a value it encodes to a JSON text.                          *)
(***************************************************************************)
LuaChunks ==
    {[run |-> "error"], [run |-> "ok", encodes |-> FALSE]}
    \cup {[run |-> "ok", encodes |-> TRUE, json |-> b] : b \in JSONTexts}

loadLuaState(root, chunk) ==
    IF ~chunk.encodes THEN [err |-> "encode", settings |-> root]
    ELSE LoadJSON(root, chunk.json)

LoadLuaString(root, code) ==
    IF code.run = "error" THEN [err |-> "lua", settings |-> root]
    ELSE loadLuaState(root, code)

LuaFiles ==
    {[exists |-> FALSE]} \cup {[exists |-> TRUE, code |-> c] : c \in LuaChunks}

LoadLuaFile(root, file) ==
    IF ~file.exists \/ file.code.run = "error"
    THEN [err |-> "lua", settings |-> root]
    ELSE loadLuaState(root, file.code)

FilePaths ==
    {[ext |-> ".json", file |-> f] : f \in JSONFiles}
    \cup {[ext |-> ".lua", file |-> f] : f \in LuaFiles}
    \cup {[ext |-> ".txt"]}

LoadFile(root, path) ==
    IF path.ext = ".json" THEN LoadJSONFile(root, path.file)
    ELSE IF path.ext = ".lua" THEN LoadLuaFile(root, path.file)
    ELSE [err |-> "Unable to determine config file type", settings |-> root]

(***************************************************************************)
(* The store and its caller.  op, args and result record the call that was *)
(* made last and what it returned; before is the root tree as that call    *)
(* found it.  A panic ends the program.                                    *)
(***************************************************************************)
NoArgs == [none |-> TRUE]
NoResult == [err |-> "nil", value |-> Null, panic |-> FALSE]

Ready == op \in {"NewSettings", "Return"}

Init ==
    /\ settings = EmptyMap
    /\ op = "NewSettings"
    /\ args = NoArgs
    /\ result = NoResult
    /\ before = EmptyMap

CallMergeSettings ==
    \E newSettings \in InTrees :
        LET r == MergeSettings(settings, newSettings) IN
        /\ Ready
        /\ Size(r.settings) <= MaxNodes
        /\ settings' = r.settings
        /\ op' = "MergeSettings"
        /\ args' = [input |-> newSettings]
        /\ result' = [err |-> r.err, value |-> Null, panic |-> FALSE]
        /\ before' = settings

CallLoadJSON ==
    \E b \in JSONTexts :
        LET r == LoadJSON(settings, b) IN
        /\ Ready
        /\ Size(r.settings) <= MaxNodes
        /\ settings' = r.settings
        /\ op' = "LoadJSON"
        /\ args' = [input |-> b]
        /\ result' = [err |-> r.err, value |-> Null, panic |-> FALSE]
        /\ before' = settings

CallLoadJSONFile ==
    \E file \in JSONFiles :
        LET r == LoadJSONFile(settings, file) IN
        /\ Ready
        /\ Size(r.settings) <= MaxNodes
        /\ settings' = r.settings
        /\ op' = "LoadJSONFile"
        /\ args' = [input |-> file]
        /\ result' = [err |-> r.err, value |-> Null, panic |-> FALSE]
        /\ before' = settings

CallLoadLuaString ==
    \E code \in LuaChunks :
        LET r == LoadLuaString(settings, code) IN
        /\ Ready
        /\ Size(r.settings) <= MaxNodes
        /\ settings' = r.settings
        /\ op' = "LoadLuaString"
        /\ args' = [input |-> code]
        /\ result' = [err |-> r.err, value |-> Null, panic |-> FALSE]
        /\ before' = settings

CallLoadLuaFile ==
    \E file \in LuaFiles :
        LET r == LoadLuaFile(settings, file) IN
        /\ Ready
        /\ Size(r.settings) <= MaxNodes
        /\ settings' = r.settings
        /\ op' = "LoadLuaFile"
        /\ args' = [input |-> file]
        /\ result' = [err |-> r.err, value |-> Null, panic |-> FALSE]
        /\ before' = settings

CallLoadFile ==
    \E path \in FilePaths :
        LET r == LoadFile(settings, path) IN
        /\ Ready
        /\ Size(r.settings) <= MaxNodes
        /\ settings' = r.settings
        /\ op' = "LoadFile"
        /\ args' = [input |-> path]
        /\ result' = [err |-> r.err, value |-> Null, panic |-> FALSE]
        /\ before' = settings

CallRawGet ==
    \E p \in Paths :
        LET r == RawGet(settings, p) IN
        /\ Ready
        /\ settings' = r.settings
        /\ op' = "RawGet"
        /\ args' = [path |-> p, defaultValue |-> Null]
        /\ result' = [err |-> r.err, value |-> r.value, panic |-> FALSE]
        /\ before' = settings

CallGet ==
    \E p \in Paths :
        LET r == Get(settings, p, "interface") IN
        /\ Ready
        /\ settings' = r.settings
        /\ op' = "Get"
        /\ args' = [path |-> p, defaultValue |-> Null]
        /\ result' = [err |-> r.err, value |-> r.value, panic |-> FALSE]
        /\ before' = settings

CallGetBool ==
    \E p \in Paths :
        LET r == GetBool(settings, p, BoolV(FALSE)) IN
        /\ Ready
        /\ settings' = r.settings
        /\ op' = "GetBool"
        /\ args' = [path |-> p, defaultValue |-> BoolV(FALSE)]
        /\ result' = [err |-> r.err, value |-> r.value, panic |-> FALSE]
        /\ before' = settings

CallGetString ==
    \E p \in Paths :
        LET r == GetString(settings, p, StringV("fallback")) IN
        /\ Ready
        /\ settings' = r.settings
        /\ op' = "GetString"
        /\ args' = [path |-> p, defaultValue |-> StringV("fallback")]
        /\ result' = [err |-> r.err, value |-> r.value, panic |-> FALSE]
        /\ before' = settings

CallGetInt ==
    \E p \in Paths :
        LET r == GetInt(settings, p, NumberV(0 - 1)) IN
        /\ Ready
        /\ settings' = r.settings
        /\ op' = "GetInt"
        /\ args' = [path |-> p, defaultValue |-> NumberV(0 - 1)]
        /\ result' = [err |-> r.err, value |-> r.value, panic |-> FALSE]
        /\ before' = settings

CallGetFloat ==
    \E p \in Paths :
        LET r == GetFloat(settings, p, NumberV(0 - 1)) IN
        /\ Ready
        /\ settings' = r.settings
        /\ op' = "GetFloat"
        /\ args' = [path |-> p, defaultValue |-> NumberV(0 - 1)]
        /\ result' = [err |-> r.err, value |-> r.value, panic |-> FALSE]
        /\ before' = settings

CallRawSet ==
    \E timid \in BOOLEAN, p \in Paths, v \in SetValues :
        LET r == RawSet(settings, timid, p, v) IN
        /\ Ready
        /\ Size(r.settings) <= MaxNodes
        /\ settings' = r.settings
        /\ op' = "RawSet"
        /\ args' = [timid |-> timid, path |-> p, value |-> v]
        /\ result' = [err |-> r.err, value |-> Null, panic |-> r.panic]
        /\ before' = settings

\* The caller drops what the call returned; the store keeps no record of it.
Return ==
    /\ ~Ready
    /\ ~result.panic
    /\ op' = "Return"
    /\ args' = NoArgs
    /\ result' = NoResult
    /\ before' = settings
    /\ UNCHANGED settings

Next ==
    \/ CallMergeSettings
    \/ CallLoadJSON
    \/ CallLoadJSONFile
    \/ CallLoadLuaString
    \/ CallLoadLuaFile
    \/ CallLoadFile
    \/ CallRawGet
    \/ CallGet
    \/ CallGetBool
    \/ CallGetString
    \/ CallGetInt
    \/ CallGetFloat
    \/ CallRawSet
    \/ Return

Spec == Init /\ [][Next]_vars

(***************************************************************************)
(* Vocabulary of the properties: what a tree holds along a sequence of     *)
(* segments, stated without reference to the walks above.                  *)
(***************************************************************************)
NavOf(path) == SubSeq(Split(path), 1, Len(Split(path)) - 1)
FinalOf(path) == Split(path)[Len(Split(path))]

\* The Tree reached from node by descending through parts, if every part
\* is present and holds a Tree.
RECURSIVE Descend(_, _)
Descend(node, parts) ==
    IF parts = <<>> THEN [tree |-> TRUE, m |-> node]
    ELSE IF Head(parts) \in DOMAIN node /\ IsMap(node[Head(parts)])
         THEN Descend(node[Head(parts)].m, Tail(parts))
         ELSE [tree |-> FALSE, m |-> EmptyMap]

\* The final key of path is present in the Tree its navigation parts reach.
Present(root, path) ==
    /\ Descend(root, NavOf(path)).tree
    /\ FinalOf(path) \in DOMAIN Descend(root, NavOf(path)).m

Stored(root, path) == Descend(root, NavOf(path)).m[FinalOf(path)]

HoldsAt(root, path, v) == Present(root, path) /\ Stored(root, path) = v

\* Some navigation part is present, reached through Trees, and not a Tree.
RECURSIVE TypeConflict(_, _)
TypeConflict(node, parts) ==
    /\ parts # <<>>
    /\ Head(parts) \in DOMAIN node
    /\ IF IsMap(node[Head(parts)])
       THEN TypeConflict(node[Head(parts)].m, Tail(parts))
       ELSE TRUE

IsScalarOrSequence(v) == v.t \in {"bool", "number", "string", "sequence"}

ReadOps == {"RawGet", "Get", "GetBool", "GetString", "GetInt", "GetFloat"}
LoadOps == {"LoadJSON", "LoadJSONFile", "LoadLuaString", "LoadLuaFile",
            "LoadFile"}

(***************************************************************************)
(* C1: RawSet with timid = false never panics and never returns an error,  *)
(* and ends with the value stored at the full path, every navigation part  *)
(* being a Tree afterwards (a non-Tree part having been replaced).         *)
(***************************************************************************)
C1_NonTimidSetRepairs ==
    (op = "RawSet" /\ ~args.timid) =>
        /\ ~result.panic
        /\ result.err = "nil"
        /\ HoldsAt(settings, args.path, args.value)

(***************************************************************************)
(* C2: RawSet with timid = true on a path one of whose navigation parts is *)
(* present but not a Tree returns an error and leaves the root tree as it  *)
(* was before the call.                                                    *)
(***************************************************************************)
C2_TimidSetFailsUnchanged ==
    (op = "RawSet" /\ args.timid /\ TypeConflict(before, NavOf(args.path))) =>
        /\ ~result.panic
        /\ result.err # "nil"
        /\ settings = before

C2_Witness ==
    /\ op = "RawSet"
    /\ args.timid
    /\ Len(NavOf(args.path)) >= 2
    /\ Descend(before, <<Head(NavOf(args.path))>>).tree
    /\ TypeConflict(before, NavOf(args.path))
    /\ result.err # "nil"

(***************************************************************************)
(* C3: RawSet(timid = false, path, v) followed at once by RawGet(path)     *)
(* returns v with no error, for every root, path and value.                *)
(***************************************************************************)
C3_SetThenGetRoundTrip ==
    (op = "RawSet" /\ ~args.timid) =>
        /\ ~result.panic
        /\ result.err = "nil"
        /\ RawGet(settings, args.path).err = "nil"
        /\ RawGet(settings, args.path).value = args.value

(***************************************************************************)
(* C5: later loads win: after a MergeSettings or Load call, at every path  *)
(* where the tree of that call holds a scalar or a sequence v, the store   *)
(* holds v and RawGet returns v, whatever the store held there or at the   *)
(* ancestors of the path before.                                           *)
(***************************************************************************)
TreeOfJSON(b) == IF b.kind = "object" THEN b.tree ELSE EmptyMap

TreeOfLua(c) ==
    IF c.run = "ok" /\ c.encodes THEN TreeOfJSON(c.json) ELSE EmptyMap

TreeOfJSONFile(f) == IF f.exists THEN TreeOfJSON(f.bytes) ELSE EmptyMap

TreeOfLuaFile(f) == IF f.exists THEN TreeOfLua(f.code) ELSE EmptyMap

LastTree ==
    CASE op = "MergeSettings" -> args.input
      [] op = "LoadJSON" -> TreeOfJSON(args.input)
      [] op = "LoadJSONFile" -> TreeOfJSONFile(args.input)
      [] op = "LoadLuaString" -> TreeOfLua(args.input)
      [] op = "LoadLuaFile" -> TreeOfLuaFile(args.input)
      [] op = "LoadFile" ->
            IF args.input.ext = ".json" THEN TreeOfJSONFile(args.input.file)
            ELSE IF args.input.ext = ".lua"
                 THEN TreeOfLuaFile(args.input.file)
                 ELSE EmptyMap
      [] OTHER -> EmptyMap

C5_LaterLoadsWin ==
    (op \in LoadOps \cup {"MergeSettings"}) =>
        \A p \in Paths :
            (Present(LastTree, p) /\ IsScalarOrSequence(Stored(LastTree, p)))
            => /\ HoldsAt(settings, p, Stored(LastTree, p))
               /\ RawGet(settings, p).err = "nil"
               /\ RawGet(settings, p).value = Stored(LastTree, p)

C5_Witness ==
    /\ op = "MergeSettings"
    /\ \E p \in Paths :
        /\ Len(Split(p)) >= 2
        /\ Present(args.input, p)
        /\ IsScalarOrSequence(Stored(args.input, p))
        /\ TypeConflict(before, NavOf(p))

(***************************************************************************)
(* C7: a load that returns an error leaves the root tree as it was before  *)
(* the call.                                                               *)
(***************************************************************************)
C7_FailedLoadAtomic ==
    (op \in LoadOps /\ result.err # "nil") => settings = before

C7_Witness ==
    /\ op = "LoadFile"
    /\ args.input.ext = ".json"
    /\ args.input.file.exists
    /\ result.err # "nil"
    /\ before # EmptyMap

(***************************************************************************)
(* C8: GetBool and GetString return the stored value with a nil error only *)
(* when the path resolves to a value of exactly the requested type; in     *)
(* every other case they return the default with a non-nil error.          *)
(***************************************************************************)
Wanted == IF op = "GetBool" THEN "bool" ELSE "string"

ResolvesToWanted ==
    Present(before, args.path) /\ Stored(before, args.path).t = Wanted

C8_TypedGetExact ==
    (op \in {"GetBool", "GetString"}) =>
        IF ResolvesToWanted
        THEN result.err = "nil" /\ result.value = Stored(before, args.path)
        ELSE result.err # "nil" /\ result.value = args.defaultValue

C8_Witness ==
    /\ op = "GetString"
    /\ Present(before, args.path)
    /\ Stored(before, args.path).t = "number"
    /\ result.value = StringV("fallback")

(***************************************************************************)
(* C9: RawGet and the accessors built on it leave the root tree unchanged, *)
(* whether they succeed or fail.                                           *)
(***************************************************************************)
C9_ReadsLeaveRoot ==
    (op \in ReadOps) => settings = before

C9_Witness ==
    /\ op = "RawGet"
    /\ Len(Split(args.path)) >= 2
    /\ FinalOf(args.path) # ""
    /\ Head(Split(args.path)) \notin DOMAIN before
    /\ before # EmptyMap
    /\ result.err # "nil"

(***************************************************************************)
(* C10: RawGet returns an error exactly when a navigation part is absent   *)
(* or not a Tree, or the final key is absent; otherwise it returns the     *)
(* value stored at the path, whatever that value is.                       *)
(***************************************************************************)
C10_RawGetExact ==
    (op = "RawGet") =>
        IF Present(before, args.path)
        THEN result.err = "nil" /\ result.value = Stored(before, args.path)
        ELSE result.err # "nil"

(***************************************************************************)
(* Merging three trees.  One store merges A, then B, then C; a second      *)
(* store (kept in result.value) merges A and then the tree obtained by     *)
(* merging C into B.                                                       *)
(***************************************************************************)
TreesOfSize(n) == {t \in TreesUpTo(n) : Size(t) = n}

MergeInit ==
    /\ settings = EmptyMap
    /\ op = "NewSettings"
    /\ \E i, j, k \in 0..MaxMergeNodes :
        /\ i + j + k <= MaxMergeNodes
        /\ args \in [A : TreesOfSize(i), B : TreesOfSize(j),
                     C : TreesOfSize(k)]
    /\ result = [err |-> "nil", value |-> MapV(EmptyMap), panic |-> FALSE]
    /\ before = EmptyMap

MergeA ==
    /\ op = "NewSettings"
    /\ settings' = MergeSettings(settings, args.A).settings
    /\ result' = [result EXCEPT
                    !.value = MapV(MergeSettings(result.value.m, args.A).settings)]
    /\ op' = "MergedA"
    /\ before' = settings
    /\ UNCHANGED args

MergeB ==
    /\ op = "MergedA"
    /\ settings' = MergeSettings(settings, args.B).settings
    /\ op' = "MergedB"
    /\ before' = settings
    /\ UNCHANGED <<args, result>>

MergeC ==
    /\ op = "MergedB"
    /\ settings' = MergeSettings(settings, args.C).settings
    /\ op' = "MergedC"
    /\ before' = settings
    /\ UNCHANGED <<args, result>>

MergeBC ==
    /\ op = "MergedC"
    /\ result' = [result EXCEPT
                    !.value = MapV(MergeSettings(result.value.m,
                                       mergeMaps(args.B, args.C)).settings)]
    /\ op' = "MergedBC"
    /\ UNCHANGED <<settings, args, before>>

MergeNext == MergeA \/ MergeB \/ MergeC \/ MergeBC

SpecMerge == MergeInit /\ [][MergeNext]_vars

(***************************************************************************)
(* C4: MergeSettings is additive for Tree-valued keys at every depth:      *)
(* where the existing and the incoming value at a key are both Trees, the  *)
(* merged value is a Tree that keeps every key only the existing sub-Tree  *)
(* has, with its value, and has every key of the incoming sub-Tree.        *)
(***************************************************************************)
RECURSIVE Additive(_, _, _)
Additive(old, inc, new) ==
    \A k \in DOMAIN old \cap DOMAIN inc :
        (IsMap(old[k]) /\ IsMap(inc[k])) =>
            /\ k \in DOMAIN new
            /\ IsMap(new[k])
            /\ \A j \in DOMAIN old[k].m \ DOMAIN inc[k].m :
                   j \in DOMAIN new[k].m /\ new[k].m[j] = old[k].m[j]
            /\ \A j \in DOMAIN inc[k].m : j \in DOMAIN new[k].m
            /\ Additive(old[k].m, inc[k].m, new[k].m)

C4_MergeAdditive ==
    /\ (op = "MergedB") => Additive(before, args.B, settings)
    /\ (op = "MergedC") => Additive(before, args.C, settings)

C4_Witness ==
    /\ op = "MergedB"
    /\ \E k \in DOMAIN before \cap DOMAIN args.B :
        /\ IsMap(before[k])
        /\ IsMap(args.B[k])
        /\ DOMAIN before[k].m \ DOMAIN args.B[k].m # {}
        /\ DOMAIN args.B[k].m \ DOMAIN before[k].m # {}

\* B holds a value that is not a Tree at a place where C holds a Tree.
RECURSIVE Shadowed(_, _)
Shadowed(b, c) ==
    \E k \in DOMAIN b \cap DOMAIN c :
        /\ IsMap(c[k])
        /\ IF IsMap(b[k]) THEN Shadowed(b[k].m, c[k].m) ELSE TRUE

(***************************************************************************)
(* C6 as stated: for all trees A, B and C, merging A, then B, then C into  *)
(* an empty store yields the same tree as merging A and then the tree      *)
(* obtained by merging C into B.                                           *)
(***************************************************************************)
C6_MergeAssociative ==
    (op = "MergedBC") => settings = result.value.m

(***************************************************************************)
(* C6 as amended: the two stores agree for all trees A, B and C such that  *)
(* B holds no non-Tree value at a place where C holds a Tree.              *)
(***************************************************************************)
C6_MergeAssociativeUnshadowed ==
    (op = "MergedBC" /\ ~Shadowed(args.B, args.C)) =>
        settings = result.value.m

C6_Witness ==
    /\ op = "MergedBC"
    /\ ~Shadowed(args.B, args.C)
    /\ \E k \in DOMAIN args.A \cap DOMAIN args.B \cap DOMAIN args.C :
        IsMap(args.A[k]) /\ IsMap(args.B[k]) /\ IsMap(args.C[k])
    /\ settings = result.value.m
    /\ settings # args.C

====
